---- MODULE Spec2Model ----
(***************************************************************************)
(* The task collection engine of team_task_dashboard_react_single_file.jsx *)
(* (component TeamTaskDashboard and its helpers): the task collection, the *)
(* task form, delete / toggle, the CSV export and import, the persistence  *)
(* effect.                                                                 *)
(*                                                                         *)
(* Representation.  A JavaScript string is a sequence of atoms.  An atom   *)
(* is either one of the characters the code treats specially (quote,       *)
(* comma, backslash, line feed, space, the escape letter n) or a run of    *)
(* ordinary characters kept as one unit ("Rami", "High", "title", a        *)
(* timestamp).  No ordinary atom begins with a JSON escape letter that is  *)
(* looked at individually.  The JavaScript value undefined is the sentinel *)
(* Undefined, a sequence no string of the model equals.  An object is a    *)
(* record; a property that is absent reads as Undefined, so a task always  *)
(* carries the nine schema keys and an absent one holds Undefined.         *)
(***************************************************************************)
EXTENDS Integers, Sequences, FiniteSets, TLC

VARIABLES
    mounted,      \* the component is on the page: FALSE once a render has thrown
                  \* (no error boundary: React removes the whole tree)
    tasks,        \* useState tasks: the collection, a sequence of task records
    query,        \* useState query: the search text
    filterStatus, \* useState filterStatus: <<"All">> or a status
    filterPriority, \* useState filterPriority: <<"All">> or a priority
    sortBy,       \* useState sortBy: the sort key
    showForm,     \* useState showForm: the TaskForm is mounted
    editing,      \* useState editing: <<>> (null) or <<t>>, t the task being edited
                  \* cut down to its id (its other properties only preset the
                  \* inputs of the form, which the user overwrites at will)
    reading,      \* FileReader reads in flight: the set of the texts whose onload
                  \* is pending (the input fires change once per file picked)
    alerted,      \* what the last handler showed with alert(): a message or "none"
    clock,        \* the system clock
    download,     \* the file exportCSV last produced: <<>> (none) or <<text>>
    storageFull,  \* the storage quota is exhausted: localStorage.setItem throws
    effectRan,    \* the last handler led to a render that ran the effect of
                  \* lines 63-66 (it called setTasks)
    stored,       \* localStorage[STORAGE_KEY]: <<>> (absent) or <<text>>
    assigneeList, \* useState assigneeList
    writeFailed,  \* history: the last localStorage.setItem of saveTasks threw
    mutatedDuring, \* history: the reads in flight since whose start the collection
                  \* has changed
    mergedLate,   \* history: the last handler was the onload of such a read and
                  \* merged its records
    thrown        \* history: the last handler ended with an exception nothing
                  \* caught (line 150 in reader.onload)

vars == <<mounted, tasks, query, filterStatus, filterPriority, sortBy, showForm, editing, reading, alerted, clock, download, storageFull, stored,
         effectRan, assigneeList, writeFailed, mutatedDuring, mergedLate, thrown>>

----------------------------------------------------------------------------
(* Bounds of the model *)

MaxTasks == 2     \* no action grows the collection beyond this many records
MaxClock == 1     \* the clock takes the values 0..MaxClock
MaxView == 3      \* the collections whose list is examined hold up to this many tasks

----------------------------------------------------------------------------
(* Characters and strings *)

Quote == "\""
Comma == ","
Backslash == "\\"
LF == "\n"
CR == "\r"
Space == " "

Undefined == <<"undefined">>
EmptyStr == <<>>

\* JavaScript truthiness of a string-or-undefined value, and  v || d
Falsy(v) == v = Undefined \/ v = EmptyStr
Or(v, d) == IF Falsy(v) THEN d ELSE v

IsWhite(a) == a \in {Space, LF, CR}

RECURSIVE trimStart(_)
trimStart(s) ==
    IF s # <<>> /\ IsWhite(Head(s)) THEN trimStart(Tail(s)) ELSE s

RECURSIVE trimEnd(_)
trimEnd(s) ==
    IF s # <<>> /\ IsWhite(s[Len(s)]) THEN trimEnd(SubSeq(s, 1, Len(s) - 1)) ELSE s

\* String.prototype.trim
trim(s) == trimEnd(trimStart(s))

\* { ...base, ...over }: every own property of over, undefined ones included,
\* replaces the property of base
Spread(base, over) ==
    [k \in DOMAIN base \cup DOMAIN over |->
        IF k \in DOMAIN over THEN over[k] ELSE base[k]]

\* Array.prototype.map (Array.prototype.filter is SelectSeq)
MapSeq(s, f(_)) == [i \in 1..Len(s) |-> f(s[i])]

----------------------------------------------------------------------------
(* Helpers of the component *)

HEADER == <<"id", "title", "description", "assignee", "priority", "status",
            "dueDate", "createdAt", "updatedAt">>

Fields == {HEADER[i] : i \in 1..Len(HEADER)}

\* uid(): Math.random().toString(36).slice(2, 9), a random string.  Which
\* string is drawn does not matter to the code, only whether it equals an id
\* in use, and a collision of the random generator is not modelled: the draw
\* is the first of "u1", "u2", ... that is not in used.
uid(used) ==
    LET U(n) == <<"u" \o ToString(n)>>
        n    == CHOOSE k \in 1..(Cardinality(used) + 1) :
                    U(k) \notin used /\ \A j \in 1..(k - 1) : U(j) \in used
    IN  U(n)

\* The ids of the records of s
IdsOf(s) == {s[i].id : i \in 1..Len(s)}

\* now(): new Date().toISOString() with the clock at c
now(c) == <<ToString(c)>>

\* sampleTasks(), the clock at c
sampleTasks(c) ==
    << [id |-> uid({}), title |-> <<"Track fuel consumption (Daff trucks)">>,
        description |-> <<"Gather monthly consumption per route">>,
        assignee |-> <<"Rami">>, priority |-> <<"High">>,
        status |-> <<"In Progress">>, dueDate |-> EmptyStr,
        createdAt |-> now(c), updatedAt |-> now(c)],
       [id |-> uid({uid({})}), title |-> <<"SAP progress update">>,
        description |-> <<"Prepare slides for Manco">>,
        assignee |-> <<"Alice">>, priority |-> <<"Medium">>,
        status |-> <<"Todo">>, dueDate |-> EmptyStr,
        createdAt |-> now(c), updatedAt |-> now(c)] >>

\* lines 398-402 without the Set and without the test of t.assignee
collectAssigneesOfAll(list) == [i \in 1..Len(list) |-> list[i].assignee]

\* collectAssignees(list): the distinct truthy assignees, in order of first
\* appearance (a Set keeps insertion order)
RECURSIVE collectAssignees(_)
collectAssignees(list) ==
    IF list = <<>> THEN <<>>
    ELSE LET rest == collectAssignees(SubSeq(list, 1, Len(list) - 1))
             a    == list[Len(list)].assignee
         IN  IF Falsy(a) \/ \E i \in 1..Len(rest) : rest[i] = a
             THEN rest ELSE Append(rest, a)

\* A text under STORAGE_KEY, and a value JSON.parse returns for one: json
\* tells what JSON value it is ("array", "object", "null"), or that the text is
\* no JSON ("invalid") or the empty string ("empty"); items holds the elements
\* of an array
arrayOf(items) == [json |-> "array", items |-> items]
otherText(json) == [json |-> json, items |-> <<>>]

\* JSON.stringify(data) in saveTasks: a property whose value is undefined is
\* left out of the stored object
stringifyTasks(data) ==
    arrayOf(MapSeq(data, LAMBDA x : [k \in {f \in DOMAIN x : x[f] # Undefined} |-> x[k]]))

\* JSON.parse(raw) in loadTasks, on the elements of a stored array of objects:
\* a property that is absent reads as undefined
parseTasks(blob) ==
    MapSeq(blob, LAMBDA x : [k \in Fields |-> IF k \in DOMAIN x THEN x[k] ELSE Undefined])

\* loadTasks(), lines 380-388: raw is <<>> when localStorage holds nothing under
\* STORAGE_KEY.  The seed is returned when raw is null or "" (line 383) and
\* when JSON.parse throws (line 386); any value JSON.parse returns is returned
\* as it is (line 384)
loadTasks(raw, c) ==
    IF raw = <<>> \/ raw[1].json = "empty" THEN arrayOf(sampleTasks(c))
    ELSE IF raw[1].json = "invalid" THEN arrayOf(sampleTasks(c))
    ELSE IF raw[1].json = "array" THEN arrayOf(parseTasks(raw[1].items))
    ELSE raw[1]

\* lines 390-396 with the write left out
saveTasksNever(data, old, full) == old

\* saveTasks(data), lines 390-396: what localStorage holds afterwards; when
\* setItem throws the error is logged and the old blob stays
saveTasks(data, old, full) == IF full THEN old ELSE <<stringifyTasks(data)>>

----------------------------------------------------------------------------
(* The derived list, lines 69-92 *)

All == <<"All">>
PRIORITIES == {<<"Low">>, <<"Medium">>, <<"High">>, <<"Critical">>}
STATUSES == {<<"Todo">>, <<"In Progress">>, <<"Waiting">>, <<"Done">>}
SortKeys == {<<"dueDate">>, <<"priority">>, <<"updatedAt">>}

\* String.prototype.toLowerCase, atom by atom: the atoms that hold an upper
\* case letter, with what they become
LowerCase ==
    [a \in {"Fix", "TRUCK", "SAP", "Rami", "Alice"} |->
        CASE a = "Fix" -> "fix" [] a = "TRUCK" -> "truck" [] a = "SAP" -> "sap"
          [] a = "Rami" -> "rami" [] a = "Alice" -> "alice"]
toLowerCase(str) ==
    [i \in 1..Len(str) |-> IF str[i] \in DOMAIN LowerCase THEN LowerCase[str[i]] ELSE str[i]]

\* String.prototype.includes: q occurs in str as a run of consecutive atoms
\* (the search texts are made of whole atoms of the texts searched)
includes(str, q) ==
    \E i \in 0..(Len(str) - Len(q)) : SubSeq(str, i + 1, i + Len(q)) = q

\* The callback of lines 74-77, q the lowered search text, for a task whose
\* title is a string
matches(t, q) ==
    \/ includes(toLowerCase(t.title), q)
    \/ includes(toLowerCase(Or(t.description, EmptyStr)), q)
    \/ includes(toLowerCase(Or(t.assignee, EmptyStr)), q)

\* Lines 71-79 throw: the search runs and t.title.toLowerCase() is called on
\* a title that is undefined (TypeError)
searchThrows(s, q) ==
    /\ trim(q) # EmptyStr
    /\ \E i \in 1..Len(s) : s[i].title = Undefined

\* The strings that are compared with > (due dates, timestamps, "9999"), each
\* one atom, in the order of the JavaScript string comparison
Collation ==
    <<"0", "1", "2", "2024-06-01", "2025-01-01", "2025-11-20", "3", "9999", "9999-12-31">>

\* x > y for two such strings, the empty string below every other
greater(x, y) ==
    LET rank(v) == IF v = EmptyStr THEN 0
                   ELSE CHOOSE k \in 1..Len(Collation) : Collation[k] = v[1]
    IN  rank(x) > rank(y)

\* order[p] || 0, line 87
order(p) ==
    CASE p = <<"Low">> -> 0 [] p = <<"Medium">> -> 1 [] p = <<"High">> -> 2
      [] p = <<"Critical">> -> 3 [] OTHER -> 0

\* The comparators of lines 84, 87 and 89: the number returned for (a, b)
compare(sb, a, b) ==
    CASE sb = <<"dueDate">> ->
           IF greater(Or(a.dueDate, <<"9999">>), Or(b.dueDate, <<"9999">>)) THEN 1 ELSE -1
      [] sb = <<"priority">> -> order(a.priority) - order(b.priority)
      [] sb = <<"updatedAt">> ->
           IF greater(Or(a.updatedAt, EmptyStr), Or(b.updatedAt, EmptyStr)) THEN -1 ELSE 1

\* Array.prototype.sort with the comparator of sb, lines 83-90: the arrays it
\* can leave in arr.  Where the comparator answers 0 for equal keys (priority)
\* the sort is stable.  The comparators of dueDate and updatedAt never answer
\* 0: for two elements with equal keys they say of each that it goes on the
\* same side of the other, and the order in which the elements of equal key
\* come out depends on the order in which the engine hands them to the
\* comparator (V8 passes the later element first, SpiderMonkey the earlier
\* one): every order of them is an outcome.
sortOutcomes(arr, sb) ==
    LET n     == Len(arr)
        Perms == {p \in [1..n -> 1..n] : \A i, j \in 1..n : i # j => p[i] # p[j]}
        \* x comes out before y: on a 0 only if it came in before y, else if
        \* the comparator puts it first or gives the same answer both ways
        Sorted(p) ==
            \A i, j \in 1..n :
                i < j =>
                    LET c == compare(sb, arr[p[i]], arr[p[j]])
                    IN  IF c = 0 THEN p[i] < p[j]
                        ELSE c < 0 \/ compare(sb, arr[p[j]], arr[p[i]]) = c
    IN  IF sb \in SortKeys
        THEN {[i \in 1..n |-> arr[p[i]]] : p \in {q \in Perms : Sorted(q)}}
        ELSE {arr}

\* line 70 as  let result = tasks
noSlice(s) == [array |-> s, fresh |-> FALSE]

\* tasks.slice(), line 70: an array with the elements of s; fresh tells that
\* it is another array than s
slice(s) == [array |-> s, fresh |-> TRUE]

\* The body of useMemo, lines 70-91, when the search does not throw: the runs
\* it can take, each with the array it returns (result) and with what it
\* leaves in the array of the collection (tasks).  filter returns a new array;
\* sort works in the array it is called on.
viewRuns(s, q, fs, fp, sb) ==
    LET r0    == slice(s)
        a1    == IF trim(q) # EmptyStr
                 THEN SelectSeq(r0.array, LAMBDA t : matches(t, toLowerCase(q)))
                 ELSE r0.array
        a2    == IF fs # All THEN SelectSeq(a1, LAMBDA t : t.status = fs) ELSE a1
        a3    == IF fp # All THEN SelectSeq(a2, LAMBDA t : t.priority = fp) ELSE a2
        fresh == r0.fresh \/ trim(q) # EmptyStr \/ fs # All \/ fp # All
    IN  {[result |-> r, tasks |-> IF fresh THEN s ELSE r] : r \in sortOutcomes(a3, sb)}

\* visibleTasks, lines 69-92: the lists the memo can hold
visibleTasks(s, q, fs, fp, sb) == {run.result : run \in viewRuns(s, q, fs, fp, sb)}

----------------------------------------------------------------------------
(* Renders and the persistence effect *)

\* What follows a handler that called setTasks(t) and left the controls of the
\* list alone.  The render recomputes the list (lines 69-92); when that throws
\* the component is removed and no effect runs.  Otherwise the effect of
\* lines 63-66 runs, tasks having changed: saveTasks(tasks) and
\* setAssigneeList(collectAssignees(tasks))
Effect(t) ==
    /\ mounted' = ~searchThrows(t, query)
    /\ stored' = IF mounted' THEN saveTasks(t, stored, storageFull) ELSE stored
    /\ assigneeList' = IF mounted' THEN collectAssignees(t) ELSE assigneeList
    /\ effectRan' = mounted'
    /\ writeFailed' = IF mounted' THEN storageFull ELSE writeFailed
    /\ mutatedDuring' = IF t # tasks THEN reading' ELSE mutatedDuring \cap reading'
    /\ UNCHANGED <<storageFull, query, filterStatus, filterPriority, sortBy>>

\* A handler that does not call setTasks and leaves the controls of the list
\* alone: no render in which tasks or the list changed
NoEffect ==
    /\ effectRan' = FALSE
    /\ mutatedDuring' = mutatedDuring \cap reading'
    /\ mergedLate' = FALSE
    /\ thrown' = FALSE
    /\ UNCHANGED <<mounted, storageFull, stored, assigneeList, writeFailed,
                   query, filterStatus, filterPriority, sortBy>>

----------------------------------------------------------------------------
(* The task form and the store operations *)

\* What the user can have typed into the form when pressing Save
FormTitles == {EmptyStr, <<Space>>, <<Space, "Fix truck 12", Space>>}
FormInputs ==
    [title : FormTitles, description : {<<"Replace", Comma, Space, "then test", Space>>},
     assignee : {EmptyStr}, priority : {<<"High">>},
     status : {<<"Todo">>}, dueDate : {EmptyStr}]

\* line 342 without the trim
titleMissingUntrimmed(title) == title = EmptyStr

\* TaskForm.save, line 342: the title is missing
titleMissing(title) == trim(title) = EmptyStr

\* TaskForm.save, line 343: the payload handed to onSave
payloadOf(initial, form) ==
    [id          |-> IF initial = <<>> THEN Undefined ELSE initial[1].id,
     title       |-> trim(form.title),
     description |-> trim(form.description),
     assignee    |-> form.assignee,
     priority    |-> form.priority,
     status      |-> form.status,
     dueDate     |-> form.dueDate]

\* upsertTask, lines 98-103: the record of the create branch, uid() giving id
\* and the two now() calls reading c1 and c2
newTask(payload, id, c1, c2) ==
    Spread([id |-> id, createdAt |-> now(c1), updatedAt |-> now(c2)], payload)

\* upsertTask, line 106: the updater of the update branch
updateAll(s, payload, c) ==
    MapSeq(s, LAMBDA x : IF x.id = payload.id
                         THEN Spread(Spread(x, payload), [updatedAt |-> now(c)])
                         ELSE x)

\* removeTask, line 114: the updater
removeAll(s, id) == SelectSeq(s, LAMBDA t : t.id # id)

\* toggleDone, line 118: the updater
toggleAll(s, id, c) ==
    MapSeq(s, LAMBDA t : IF t.id = id
                         THEN Spread(t, [status |-> IF t.status = <<"Done">>
                                                    THEN <<"Todo">> ELSE <<"Done">>,
                                         updatedAt |-> now(c)])
                         ELSE t)

\* upsertTask(payload), lines 95-110
upsertTask(payload) ==
    IF Falsy(payload.title)
    THEN /\ alerted' = "none"
         /\ UNCHANGED <<tasks, showForm, editing, reading, download, clock>> /\ NoEffect
    ELSE /\ IF Falsy(payload.id)
            THEN /\ Len(tasks) < MaxTasks
                 /\ \E c2 \in clock..MaxClock :
                        /\ tasks' = <<newTask(payload, uid(IdsOf(tasks)), clock, c2)>> \o tasks
                        /\ clock' = c2
            ELSE /\ tasks' = updateAll(tasks, payload, clock)
                 /\ UNCHANGED clock
         /\ showForm' = FALSE
         /\ editing' = <<>>
         /\ alerted' = "none"
         /\ mergedLate' = FALSE
         /\ thrown' = FALSE
         /\ UNCHANGED <<reading, download>>
         /\ Effect(tasks')

\* The Add Task button, lines 169-172
OpenAdd ==
    /\ mounted
    /\ editing' = <<>>
    /\ showForm' = TRUE
    /\ alerted' = "none"
    /\ UNCHANGED <<tasks, reading, download, clock>> /\ NoEffect

\* openEdit(t), lines 121-124, t a task of the rendered list
openEdit(i) ==
    /\ mounted
    /\ editing' = <<[id |-> tasks[i].id]>>
    /\ showForm' = TRUE
    /\ alerted' = "none"
    /\ UNCHANGED <<tasks, reading, download, clock>> /\ NoEffect

\* onCancel, line 316 (and the backdrop, line 313)
Cancel ==
    /\ mounted
    /\ showForm
    /\ showForm' = FALSE
    /\ editing' = <<>>
    /\ alerted' = "none"
    /\ UNCHANGED <<tasks, reading, download, clock>> /\ NoEffect

\* TaskForm.save, lines 341-344, with onSave = upsertTask (line 317); the form
\* exists only while showForm holds (line 311)
save(form) ==
    /\ mounted
    /\ showForm
    /\ IF titleMissing(form.title)
       THEN /\ alerted' = "Title is required"
            /\ UNCHANGED <<tasks, showForm, editing, reading, download, clock>> /\ NoEffect
       ELSE upsertTask(payloadOf(editing, form))

\* removeTask(id), lines 112-115; confirmed is the answer to confirm()
removeTask(id, confirmed) ==
    /\ mounted
    /\ alerted' = "none"
    /\ IF ~confirmed
       THEN UNCHANGED <<tasks, showForm, editing, reading, download, clock>> /\ NoEffect
       ELSE /\ tasks' = removeAll(tasks, id)
            /\ mergedLate' = FALSE
            /\ thrown' = FALSE
            /\ UNCHANGED <<showForm, editing, reading, download, clock>>
            /\ Effect(tasks')

\* toggleDone(id), lines 117-119
toggleDone(id) ==
    /\ mounted
    /\ alerted' = "none"
    /\ tasks' = toggleAll(tasks, id, clock)
    /\ mergedLate' = FALSE
    /\ thrown' = FALSE
    /\ UNCHANGED <<showForm, editing, reading, download, clock>>
    /\ Effect(tasks')

----------------------------------------------------------------------------
(* CSV export and import *)

\* JSON.stringify of one character of a string
escapeAtom(a) ==
    CASE a = Quote     -> <<Backslash, Quote>>
      [] a = Backslash -> <<Backslash, Backslash>>
      [] a = LF        -> <<Backslash, "n">>
      [] a = CR        -> <<Backslash, "r">>
      [] OTHER         -> <<a>>

RECURSIVE escapeAll(_)
escapeAll(v) == IF v = <<>> THEN <<>> ELSE escapeAtom(Head(v)) \o escapeAll(Tail(v))

\* JSON.stringify(v), v a string
stringify(v) == <<Quote>> \o escapeAll(v) \o <<Quote>>

\* Array.prototype.join(sep)
RECURSIVE join(_, _)
join(parts, sep) ==
    IF parts = <<>> THEN <<>>
    ELSE IF Len(parts) = 1 THEN parts[1]
    ELSE parts[1] \o <<sep>> \o join(Tail(parts), sep)

\* exportCSV, line 129: the row of task t
csvRow(t) ==
    join([i \in 1..Len(HEADER) |-> stringify(Or(t[HEADER[i]], EmptyStr))], Comma)

\* exportCSV, lines 128-130: the text of the downloaded file
csvOf(s) ==
    join(<<join([i \in 1..Len(HEADER) |-> <<HEADER[i]>>], Comma)>> \o MapSeq(s, csvRow), LF)

\* String.prototype.split(sep), sep one character
RECURSIVE split(_, _)
split(s, sep) ==
    IF \E i \in 1..Len(s) : s[i] = sep
    THEN LET i == CHOOSE j \in 1..Len(s) : s[j] = sep /\ \A k \in 1..(j - 1) : s[k] # sep
         IN  <<SubSeq(s, 1, i - 1)>> \o split(SubSeq(s, i + 1, Len(s)), sep)
    ELSE <<s>>

\* text.split(/\r?\n/): a carriage return right before a line feed belongs to
\* the separator
splitLines(text) ==
    LET raw == split(text, LF)
    IN  [i \in 1..Len(raw) |->
            IF i < Len(raw) /\ raw[i] # <<>> /\ raw[i][Len(raw[i])] = CR
            THEN SubSeq(raw[i], 1, Len(raw[i]) - 1) ELSE raw[i]]

\* h.replace(/"/g, "")
stripQuotes(h) == SelectSeq(h, LAMBDA a : a # Quote)

\* splitCSVLine, lines 416-421: the loop from position i on
RECURSIVE scanCSV(_, _, _, _, _)
scanCSV(line, i, cur, inQ, parts) ==
    IF i > Len(line) THEN Append(parts, cur)
    ELSE IF line[i] = Quote THEN scanCSV(line, i + 1, cur, ~inQ, parts)
    ELSE IF line[i] = Comma /\ ~inQ THEN scanCSV(line, i + 1, <<>>, inQ, Append(parts, cur))
    ELSE scanCSV(line, i + 1, Append(cur, line[i]), inQ, parts)

\* splitCSVLine(line), lines 411-424
splitCSVLine(line) ==
    MapSeq(scanCSV(line, 1, <<>>, FALSE, <<>>),
           LAMBDA p : IF p = <<>> THEN <<Quote, Quote>> ELSE <<Quote>> \o p \o <<Quote>>)

\* JSON.parse of a string literal: the scan after the opening quote.  The
\* result is <<value>>, or <<>> when JSON.parse throws a SyntaxError.
RECURSIVE parseChars(_, _)
parseChars(rest, acc) ==
    IF rest = <<>> THEN <<>>
    ELSE IF Head(rest) = Quote
         THEN IF trim(Tail(rest)) = <<>> THEN <<acc>> ELSE <<>>
    ELSE IF Head(rest) = Backslash
         THEN IF Len(rest) < 2 THEN <<>>
              ELSE IF rest[2] \in {Quote, Backslash, "/"}
                   THEN parseChars(SubSeq(rest, 3, Len(rest)), Append(acc, rest[2]))
              ELSE IF rest[2] = "n" THEN parseChars(SubSeq(rest, 3, Len(rest)), Append(acc, LF))
              ELSE IF rest[2] = "r" THEN parseChars(SubSeq(rest, 3, Len(rest)), Append(acc, CR))
              ELSE <<>>
    ELSE IF Head(rest) \in {LF, CR} THEN <<>>
    ELSE parseChars(Tail(rest), Append(acc, Head(rest)))

\* JSON.parse(s) for the texts line 150 hands it, all of which begin with a quote
JSONparse(s) ==
    IF s = <<>> \/ Head(s) # Quote THEN <<>> ELSE parseChars(Tail(s), <<>>)

\* line 144 without filter(Boolean)
linesOfUnfiltered(text) == splitLines(text)

\* importCSV, line 144: the non-empty lines
linesOf(text) == SelectSeq(splitLines(text), LAMBDA ln : ln # <<>>)

\* importCSV, line 146
headerOf(lines) == MapSeq(split(lines[1], Comma), stripQuotes)

\* importCSV, line 150: JSON.parse(parts[i] || '""') for column i of line ln
cellOf(ln, i) ==
    LET parts == splitCSVLine(ln)
    IN  JSONparse(IF i <= Len(parts) /\ parts[i] # <<>> THEN parts[i] ELSE <<Quote, Quote>>)

\* importCSV, lines 147-152: the object of line ln; a later column of the same
\* name overwrites an earlier one, a schema field no column names is absent
rowObject(header, ln) ==
    [k \in Fields |->
        IF \E i \in 1..Len(header) : header[i] = <<k>>
        THEN LET i == CHOOSE j \in 1..Len(header) :
                        header[j] = <<k>> /\ \A m \in (j + 1)..Len(header) : header[m] # <<k>>
             IN  cellOf(ln, i)[1]
        ELSE Undefined]

\* importCSV, lines 147-152: JSON.parse throws on no cell of the data lines
rowsParse(lines) ==
    \A r \in 2..Len(lines) : \A i \in 1..Len(headerOf(lines)) : cellOf(lines[r], i) # <<>>

\* lines 147-152 stopping after the first data line
importedOfFirst(lines) == <<rowObject(headerOf(lines), lines[2])>>

\* importCSV, lines 147-152: the imported records, in file order
importedOf(lines) ==
    [r \in 1..(Len(lines) - 1) |-> rowObject(headerOf(lines), lines[r + 1])]

\* line 153 with the imported records dropping the collection
mergeImportedOnly(imported, s) == imported

\* importCSV, line 153: the updater, s the collection when the update is applied
mergeImported(imported, s) == imported \o s

\* The files the user can pick in the import input
HeaderOnlyFile == <<"id", Comma, "title", LF>>
OneRowFile     == <<"title", Comma, "id", CR, LF, Quote, Quote, Comma, Quote, "u1", Quote, LF>>
Files == {HeaderOnlyFile, OneRowFile}

\* exportCSV(), lines 127-138
exportCSV ==
    /\ mounted
    /\ download' = <<csvOf(tasks)>>
    /\ alerted' = "none"
    /\ UNCHANGED <<tasks, showForm, editing, reading, clock>> /\ NoEffect

\* importCSV(file), lines 140-156: the read starts, onload comes later
importCSV(file) ==
    /\ mounted
    /\ file \notin reading
    /\ reading' = reading \cup {file}
    /\ alerted' = "none"
    /\ UNCHANGED <<tasks, showForm, editing, clock, download>> /\ NoEffect

\* reader.onload, lines 142-154, for a read in flight that got text
onload(text) ==
    LET lines == linesOf(text)
    IN  /\ mounted
        /\ text \in reading
        /\ reading' = reading \ {text}
        /\ IF Len(lines) < 2
           THEN /\ alerted' = "No data found"
                /\ UNCHANGED <<tasks, showForm, editing, clock, download>> /\ NoEffect
           ELSE IF ~rowsParse(lines)
           THEN /\ alerted' = "none"
                /\ thrown' = TRUE
                /\ effectRan' = FALSE
                /\ mutatedDuring' = mutatedDuring \cap reading'
                /\ mergedLate' = FALSE
                /\ UNCHANGED <<tasks, showForm, editing, clock, download, mounted,
                               storageFull, stored, assigneeList, writeFailed, query,
                               filterStatus, filterPriority, sortBy>>
           ELSE /\ Len(lines) - 1 + Len(tasks) <= MaxTasks
                /\ tasks' = mergeImported(importedOf(lines), tasks)
                /\ alerted' = "none"
                /\ mergedLate' = (text \in mutatedDuring)
                /\ thrown' = FALSE
                /\ Effect(tasks')
                /\ UNCHANGED <<showForm, editing, clock, download>>

\* The page is loaded again: useState initialisers (lines 51-60), then the
\* effect of lines 63-66 on mount.  When loadTasks returns something that is
\* not an array the initialiser of line 58 throws (list.forEach is not a
\* function, or list is null): the component never mounts, no effect runs and
\* tasks holds no collection
Reload ==
    LET v == loadTasks(stored, clock)
    IN  /\ mounted' = (v.json = "array")
        /\ tasks' = v.items
        /\ query' = EmptyStr
        /\ filterStatus' = All
        /\ filterPriority' = All
        /\ sortBy' = <<"dueDate">>
        /\ UNCHANGED clock
        /\ showForm' = FALSE
        /\ editing' = <<>>
        /\ reading' = {}
        /\ alerted' = "none"
        /\ download' = <<>>
        /\ mergedLate' = FALSE
        /\ thrown' = FALSE
        /\ mutatedDuring' = {}
        /\ effectRan' = mounted'
        /\ stored' = IF mounted' THEN saveTasks(tasks', stored, storageFull) ELSE stored
        /\ writeFailed' = IF mounted' THEN storageFull ELSE writeFailed
        /\ assigneeList' = IF mounted' THEN collectAssignees(tasks') ELSE <<>>
        /\ UNCHANGED storageFull

\* A control of the list changes (lines 199, 205, 209, 215, 227, 231): the
\* render recomputes the list with the new values, tasks being the same array
\* so that no effect runs
viewChange(q, fs, fp, sb) ==
    /\ mounted
    /\ query' = q
    /\ filterStatus' = fs
    /\ filterPriority' = fp
    /\ sortBy' = sb
    /\ alerted' = "none"
    /\ IF searchThrows(tasks, q)
       THEN /\ mounted' = FALSE
            /\ tasks' = tasks
       ELSE /\ mounted' = TRUE
            /\ \E run \in viewRuns(tasks, q, fs, fp, sb) : tasks' = run.tasks
    /\ effectRan' = FALSE
    /\ mergedLate' = FALSE
    /\ thrown' = FALSE
    /\ mutatedDuring' = IF tasks' # tasks THEN reading ELSE mutatedDuring
    /\ UNCHANGED <<showForm, editing, reading, clock, download, storageFull, stored,
                   assigneeList, writeFailed>>

\* The search input, line 199
setQuery(q) == viewChange(q, filterStatus, filterPriority, sortBy)

\* The status select, line 205
setFilterStatus(fs) == viewChange(query, fs, filterPriority, sortBy)

\* The priority select, line 209
setFilterPriority(fp) == viewChange(query, filterStatus, fp, sortBy)

\* The sort select, line 215
setSortBy(sb) == viewChange(query, filterStatus, filterPriority, sb)

\* The Clear button, line 227
Clear == viewChange(EmptyStr, All, All, sortBy)

\* The button of assignee a, line 231
setQueryAssignee(i) == viewChange(assigneeList[i], filterStatus, filterPriority, sortBy)

\* Time passes between two handlers (inside a handler only upsertTask reads
\* the clock twice, lines 100-101)
Tick ==
    /\ clock < MaxClock
    /\ clock' = clock + 1
    /\ UNCHANGED <<mounted, tasks, showForm, editing, reading, alerted, download,
                   storageFull, stored, effectRan, assigneeList, writeFailed,
                   mutatedDuring, mergedLate, thrown, query, filterStatus,
                   filterPriority, sortBy>>

\* The storage quota of the origin is used up, or freed again, from outside
\* the component: from then on setItem throws (line 392), or succeeds
QuotaChange ==
    /\ storageFull' = ~storageFull
    /\ UNCHANGED <<mounted, tasks, showForm, editing, reading, alerted, clock, download,
                   stored, effectRan, assigneeList, writeFailed, mutatedDuring,
                   mergedLate, thrown, query, filterStatus, filterPriority, sortBy>>

\* The text under STORAGE_KEY is replaced from outside the component (another
\* page of the origin, the developer tools, a write that was cut short)
StorageEdited(text) ==
    /\ stored' = <<text>>
    /\ UNCHANGED <<mounted, tasks, showForm, editing, reading, alerted, clock, download,
                   storageFull, effectRan, assigneeList, writeFailed, mutatedDuring,
                   mergedLate, thrown, query, filterStatus, filterPriority, sortBy>>

----------------------------------------------------------------------------
(* The component from a first visit on *)

\* The component once mounted (useState initialisers, lines 51-60, and the
\* effect of lines 63-66) on a page load that finds raw in localStorage
Mounted(raw) ==
    /\ mounted = (loadTasks(raw, 0).json = "array")
    /\ tasks = loadTasks(raw, 0).items
    /\ query = EmptyStr
    /\ filterStatus = All
    /\ filterPriority = All
    /\ sortBy = <<"dueDate">>
    /\ showForm = FALSE
    /\ editing = <<>>
    /\ reading = {}
    /\ alerted = "none"
    /\ clock = 0
    /\ download = <<>>
    /\ storageFull = FALSE
    /\ stored = IF mounted THEN saveTasks(tasks, raw, storageFull) ELSE raw
    /\ effectRan = mounted
    /\ writeFailed = storageFull
    /\ assigneeList = IF mounted THEN collectAssignees(tasks) ELSE <<>>
    /\ mutatedDuring = {}
    /\ mergedLate = FALSE
    /\ thrown = FALSE

\* A first visit: localStorage holds nothing
Init == Mounted(<<>>)

Next ==
    \/ OpenAdd
    \/ \E i \in 1..Len(tasks) : openEdit(i)
    \/ Cancel
    \/ \E form \in FormInputs : save(form)
    \/ \E i \in 1..Len(tasks), confirmed \in BOOLEAN : removeTask(tasks[i].id, confirmed)
    \/ \E i \in 1..Len(tasks) : toggleDone(tasks[i].id)
    \/ \E file \in Files : importCSV(file)
    \/ \E text \in reading : onload(text)
    \/ Reload
    \/ Tick

Spec == Init /\ [][Next]_vars

----------------------------------------------------------------------------
(* Parts of the component on their own *)

\* The task form and the store operations, no file import
NextForm ==
    \/ OpenAdd
    \/ \E i \in 1..Len(tasks) : openEdit(i)
    \/ Cancel
    \/ \E form \in FormInputs : save(form)
    \/ \E i \in 1..Len(tasks), confirmed \in BOOLEAN : removeTask(tasks[i].id, confirmed)
    \/ \E i \in 1..Len(tasks) : toggleDone(tasks[i].id)
    \/ Reload
    \/ Tick

SpecForm == Init /\ [][NextForm]_vars

\* Create calls only, on a visit that finds an empty collection stored
CreateInputs ==
    [title : {<<"Fix truck 12">>}, description : {EmptyStr},
     assignee : {EmptyStr, <<"Rami">>}, priority : {<<"High">>, <<"Low">>},
     status : {<<"Todo">>}, dueDate : {EmptyStr}]

InitCreate == Mounted(<<stringifyTasks(<<>>)>>)

NextCreate ==
    \/ OpenAdd
    \/ Cancel
    \/ \E form \in CreateInputs : save(form)
    \/ Tick

SpecCreate == InitCreate /\ [][NextCreate]_vars

\* File import, with delete to make room
HeaderNoNewline == <<"id", Comma, "title">>
HeaderBlankLines == <<Quote, "id", Quote, Comma, Quote, "title", Quote, CR, LF, LF, CR, LF>>
NoDataFiles == {HeaderOnlyFile, HeaderNoNewline, HeaderBlankLines}
ImportFiles == NoDataFiles \cup {OneRowFile}

NextImport ==
    \/ \E file \in ImportFiles : importCSV(file)
    \/ \E text \in reading : onload(text)
    \/ \E i \in 1..Len(tasks), confirmed \in BOOLEAN : removeTask(tasks[i].id, confirmed)
    \/ Reload

SpecImport == Init /\ [][NextImport]_vars

\* Export, then import of the exported file into the emptied collection
PlainTask ==
    [id |-> <<"a1">>, title |-> <<"Fix truck 12">>, description |-> EmptyStr,
     assignee |-> <<"Rami">>, priority |-> <<"High">>, status |-> <<"Todo">>,
     dueDate |-> <<"2025-11-20">>, createdAt |-> <<"0">>, updatedAt |-> <<"1">>]
CommaTask ==
    [PlainTask EXCEPT !.id = <<"a2">>,
                      !.description = <<"Replace", Comma, Space, "then test">>]
QuoteTask ==
    [PlainTask EXCEPT !.id = <<"a3">>,
                      !.description = <<"say ", Quote, "hi", Quote>>]
RoundTripTasks == {PlainTask, CommaTask, QuoteTask}

\* The collections of at most MaxTasks of these tasks, each at most once
RoundTripCollections ==
    {s \in UNION {[1..n -> RoundTripTasks] : n \in 0..MaxTasks} :
        \A i, j \in 1..Len(s) : i # j => s[i] # s[j]}

InitCSV ==
    \E X \in RoundTripCollections : Mounted(<<stringifyTasks(X)>>)

NextCSV ==
    \/ exportCSV
    \/ \E i \in 1..Len(tasks) : removeTask(tasks[i].id, TRUE)
    \/ (download # <<>> /\ tasks = <<>> /\ importCSV(download[1]))
    \/ \E text \in reading : onload(text)

SpecCSV == InitCSV /\ [][NextCSV]_vars

\* Imports in flight while tasks are created, edited and deleted
SecondRowFile ==
    <<"id", Comma, "title", LF, Quote, "x1", Quote, Comma, Quote, "Wash truck 7", Quote>>
InterleaveFiles == {OneRowFile, SecondRowFile}
InterleaveForms ==
    [title : {<<"Fix truck 12">>}, description : {EmptyStr}, assignee : {<<"Rami">>},
     priority : {<<"High">>}, status : {<<"Todo">>}, dueDate : {EmptyStr}]

NextInterleave ==
    \/ \E file \in InterleaveFiles : importCSV(file)
    \/ \E text \in reading : onload(text)
    \/ OpenAdd
    \/ \E i \in 1..Len(tasks) : openEdit(i)
    \/ \E form \in InterleaveForms : save(form)
    \/ \E i \in 1..Len(tasks) : removeTask(tasks[i].id, TRUE)

SpecInterleave == Init /\ [][NextInterleave]_vars

\* Every operation that changes the collection, while the storage quota comes
\* and goes: the quota is used up while the collection is the one of the first
\* visit and freed at any moment; the form is filled in and saved, or left
\* open, before the list behind it is used
NextPersist ==
    \/ ((storageFull \/ tasks = sampleTasks(0)) /\ QuotaChange)
    \/ OpenAdd
    \/ \E i \in 1..Len(tasks) : openEdit(i)
    \/ \E form \in InterleaveForms : save(form)
    \/ (~showForm /\ \E i \in 1..Len(tasks) : removeTask(tasks[i].id, TRUE))
    \/ (~showForm /\ \E i \in 1..Len(tasks) : toggleDone(tasks[i].id))
    \/ (~showForm /\ importCSV(OneRowFile))
    \/ (~showForm /\ \E text \in reading : onload(text))
    \/ (~showForm /\ Reload)

SpecPersist == Init /\ [][NextPersist]_vars

\* Tasks gaining and losing assignees: created and edited with and without
\* one, deleted, imported with and without an assignee column (one file at a
\* time, picked and read while the form is closed)
AssigneeRowFile ==
    <<"id", Comma, "assignee", Comma, "title", LF,
      Quote, "x1", Quote, Comma, Quote, "Alice", Quote, Comma, Quote, "Wash truck 7", Quote>>
IndexFiles == {OneRowFile, AssigneeRowFile}
IndexForms ==
    [title : {<<"Fix truck 12">>}, description : {EmptyStr},
     assignee : {EmptyStr, <<"Rami">>}, priority : {<<"High">>},
     status : {<<"Todo">>}, dueDate : {EmptyStr}]

NextIndex ==
    \/ OpenAdd
    \/ \E i \in 1..Len(tasks) : openEdit(i)
    \/ \E form \in IndexForms : save(form)
    \/ \E i \in 1..Len(tasks) : removeTask(tasks[i].id, TRUE)
    \/ (reading = {} /\ ~showForm /\ \E file \in IndexFiles : importCSV(file))
    \/ (~showForm /\ \E text \in reading : onload(text))
    \/ Reload

SpecIndex == Init /\ [][NextIndex]_vars

\* Page loads that find what the component stored, nothing, or a text it did
\* not write under STORAGE_KEY
LoadTexts ==
    {otherText("empty"), otherText("invalid"), otherText("object"), otherText("null"),
     stringifyTasks(<<>>), stringifyTasks(<<PlainTask>>)}

NextLoad ==
    \/ \E text \in LoadTexts : StorageEdited(text)
    \/ Reload
    \/ \E i \in 1..Len(tasks) : removeTask(tasks[i].id, TRUE)
    \/ \E i \in 1..Len(tasks) : toggleDone(tasks[i].id)
    \/ Tick

SpecLoad == Init /\ [][NextLoad]_vars

\* Imports of files whose rows decode, with and without a blank line between
\* them, and of files in which one row holds an escape JSON.parse rejects,
\* with delete to make room
TwoRowsFile ==
    <<"id", Comma, "title", LF, Quote, "r1", Quote, Comma, Quote, "Fix truck 12", Quote, CR, LF,
      CR, LF, "r2", Comma, "SAP update", LF>>
GoodThenBadFile == <<"id", LF, Quote, "g1", Quote, LF, Quote, "g2", Backslash, "x", Quote, LF>>
BadThenGoodFile == <<"title", Comma, "id", LF, "Wash", Backslash, Comma, "g3", LF, "Wash", Comma, "g4">>
AtomicFiles == {OneRowFile, TwoRowsFile, GoodThenBadFile, BadThenGoodFile}

NextAtomic ==
    \/ \E file \in AtomicFiles : importCSV(file)
    \/ \E text \in reading : onload(text)
    \/ \E i \in 1..Len(tasks), confirmed \in BOOLEAN : removeTask(tasks[i].id, confirmed)

SpecAtomic == Init /\ [][NextAtomic]_vars

\* The controls of the list, on collections of tasks with and without due
\* date, with equal and different keys, one of them imported from a file that
\* has no title column
TaskA ==
    [id |-> <<"a">>, title |-> <<"Fix", Space, "truck", Space, "12">>,
     description |-> <<"Replace", Space, "brake", Space, "pads">>,
     assignee |-> <<"Rami">>, priority |-> <<"High">>, status |-> <<"Todo">>,
     dueDate |-> <<"2025-01-01">>, createdAt |-> <<"0">>, updatedAt |-> <<"1">>]
TaskB ==
    [id |-> <<"b">>, title |-> <<"SAP", Space, "update">>, description |-> EmptyStr,
     assignee |-> <<"Alice">>, priority |-> <<"Low">>, status |-> <<"Done">>,
     dueDate |-> EmptyStr, createdAt |-> <<"0">>, updatedAt |-> <<"1">>]
TaskC ==
    [id |-> <<"c">>, title |-> <<"Wash", Space, "truck", Space, "7">>,
     description |-> EmptyStr, assignee |-> EmptyStr, priority |-> <<"Critical">>,
     status |-> <<"Todo">>, dueDate |-> <<"2024-06-01">>, createdAt |-> <<"0">>,
     updatedAt |-> <<"2">>]
TaskLate ==
    [TaskC EXCEPT !.id = <<"d">>, !.priority = <<"High">>, !.dueDate = <<"9999-12-31">>]
TaskNoTitle ==
    [id |-> <<"e">>, title |-> Undefined, description |-> <<"truck">>,
     assignee |-> Undefined, priority |-> Undefined, status |-> Undefined,
     dueDate |-> Undefined, createdAt |-> Undefined, updatedAt |-> Undefined]
ViewTasks == {TaskA, TaskB, TaskC, TaskLate, TaskNoTitle}

\* The collections of at most MaxView of these tasks, each at most once
ViewCollections ==
    {s \in UNION {[1..n -> ViewTasks] : n \in 0..MaxView} :
        \A i, j \in 1..Len(s) : i # j => s[i] # s[j]}

Queries == {EmptyStr, <<Space>>, <<"truck">>, <<"TRUCK">>, <<"pads">>}

InitView == \E X \in ViewCollections : Mounted(<<stringifyTasks(X)>>)

NextView ==
    \/ \E q \in Queries : setQuery(q)
    \/ \E fs \in {All, <<"Todo">>, <<"Done">>} : setFilterStatus(fs)
    \/ \E fp \in {All, <<"High">>} : setFilterPriority(fp)
    \/ \E sb \in SortKeys : setSortBy(sb)
    \/ Clear
    \/ \E i \in 1..Len(assigneeList) : setQueryAssignee(i)

SpecView == InitView /\ [][NextView]_vars

----------------------------------------------------------------------------
(* Properties *)

\* A step of TaskForm.save that passes the title check
SaveStep == \E form \in FormInputs : ~titleMissing(form.title) /\ save(form)

\* s without the record at position i
RemoveAt(s, i) == SubSeq(s, 1, i - 1) \o SubSeq(s, i + 1, Len(s))

\* A title that is empty or whitespace-only
Blank(title) == \A k \in 1..Len(title) : title[k] \in {Space, LF, CR}

\* C1: however many tasks are created through the task form, every created
\* task has an id that is present and the ids of the created tasks are
\* pairwise distinct.  (Under SpecCreate every task of the collection was
\* created through the form.)
C1_CreatedIdsPresentAndDistinct ==
    /\ \A i \in 1..Len(tasks) : ~Falsy(tasks[i].id)
    /\ \A i, j \in 1..Len(tasks) : i # j => tasks[i].id # tasks[j].id

\* C2: in every reachable state no two tasks of the collection have the same id.
C2_IdsUnique ==
    \A i, j \in 1..Len(tasks) : i # j => tasks[i].id # tasks[j].id

\* C3: saving an edit of a task that is in the collection keeps the number and
\* the order of the records, changes only the edited record, keeps its id and
\* createdAt (the fields the form does not supply), and sets its updatedAt to
\* the time of the save.
C3_EditChangesOnlyThatTask ==
    [][ (/\ SaveStep
         /\ editing # <<>>
         /\ \E i \in 1..Len(tasks) : tasks[i].id = editing[1].id)
        => /\ Len(tasks') = Len(tasks)
           /\ \E i \in 1..Len(tasks) :
                /\ tasks[i].id = editing[1].id
                /\ \A j \in 1..Len(tasks) : j # i => tasks'[j] = tasks[j]
                /\ tasks'[i].id = tasks[i].id
                /\ tasks'[i].createdAt = tasks[i].createdAt
                /\ tasks'[i].updatedAt = now(clock) ]_vars

\* C4: a confirmed delete of a task of the collection removes that record and
\* leaves every other record present, unchanged and in the same order; deleting
\* an id no record has leaves the collection unchanged.
C4_DeleteRemovesOnlyThatTask ==
    [][ /\ \A i \in 1..Len(tasks) :
             removeTask(tasks[i].id, TRUE) => tasks' = RemoveAt(tasks, i)
        /\ \A id \in {<<"u1">>, <<"u2">>, <<"zz">>, Undefined} \ IdsOf(tasks) :
             removeAll(tasks, id) = tasks ]_vars

\* C5: toggleStatus on a task sets that task's status to Todo if it was Done
\* and to Done otherwise, refreshes that task's updatedAt, and changes no other
\* task and no other field.
C5_ToggleChangesOnlyThatTask ==
    [][ \A i \in 1..Len(tasks) :
          toggleDone(tasks[i].id)
          => tasks' = [tasks EXCEPT ![i] =
                         [@ EXCEPT !.status = IF @ = <<"Done">> THEN <<"Todo">>
                                                               ELSE <<"Done">>,
                                   !.updatedAt = now(clock)]] ]_vars

\* C6: a create or update call (Save pressed in the form, adding or editing)
\* whose title is empty or whitespace-only changes neither the collection nor
\* what is stored, and reports "Title is required".
C6_BlankTitleRejected ==
    [][ \A form \in FormInputs :
          (Blank(form.title) /\ save(form))
          => /\ tasks' = tasks
             /\ stored' = stored
             /\ alerted' = "Title is required" ]_vars

\* C6 witness: an edit with a blank title was just rejected
C6_Witness ==
    /\ alerted = "Title is required"
    /\ showForm
    /\ editing # <<>>

\* C7: in every reachable state every task of the collection has a non-empty
\* title.
C7_TitlesNonEmpty ==
    \A i \in 1..Len(tasks) : ~Falsy(tasks[i].title)

\* C8: an update whose id is the id of no task of the collection leaves the
\* collection unchanged and reports an error at the call.
C8_StaleUpdateReported ==
    [][ (/\ SaveStep
         /\ editing # <<>>
         /\ ~Falsy(editing[1].id)
         /\ editing[1].id \notin IdsOf(tasks))
        => /\ tasks' = tasks
           /\ alerted' # "none" ]_vars

\* C9: when the read of a file that has a header row and no data row completes,
\* "No data found" is reported and the collection stays as it is.
C9_HeaderOnlyImportRejected ==
    [][ \A text \in NoDataFiles :
          onload(text)
          => /\ tasks' = tasks
             /\ stored' = stored
             /\ alerted' = "No data found" ]_vars

\* C9 witness: the read of a header-only file has just completed, the
\* collection holding records
C9_Witness ==
    /\ alerted = "No data found"
    /\ tasks # <<>>

\* C10: importing the text exported from a collection X into the empty
\* collection yields X: the same tasks in the same order, equal on every schema
\* field, also when a value contains the delimiter or a quote character.
C10_ExportImportRoundTrip ==
    [][ \A X \in RoundTripCollections :
          (/\ download = <<csvOf(X)>>
           /\ tasks = <<>>
           /\ onload(csvOf(X)))
          => tasks' = X ]_vars

\* C11: when the read of a file whose rows decode completes, the collection
\* becomes the imported records, in file order, followed by the collection as
\* it is at that moment, whatever was created, updated, toggled, deleted or
\* merged since the read started.
C11_MergeKeepsCurrentCollection ==
    [][ \A text \in reading :
          (/\ onload(text)
           /\ Len(linesOf(text)) >= 2
           /\ rowsParse(linesOf(text)))
          => tasks' = importedOf(linesOf(text)) \o tasks ]_vars

\* C11 witness: a read during which the collection changed has just completed
\* and merged its records ahead of a record that was there, another read
\* still being in flight
C11_Witness ==
    /\ mergedLate
    /\ Len(tasks) = 2
    /\ reading # {}

\* C12: every step that changes the collection (create, update, delete,
\* toggle, import merge) runs the persistence write in the same step, and
\* whenever the last write succeeded what is stored is the serialization of
\* the collection in memory.
C12_WriteFollowsEveryMutation ==
    [][ /\ tasks' # tasks
           => /\ effectRan'
              /\ writeFailed' = storageFull
              /\ storageFull => stored' = stored
        /\ ~writeFailed' => stored' = <<stringifyTasks(tasks')>> ]_vars

\* C12 witness: a record was toggled and the other deleted, and the write that
\* followed the last mutation succeeded
C12_Witness ==
    /\ effectRan
    /\ ~writeFailed
    /\ ~storageFull
    /\ Len(tasks) = 1
    /\ tasks[1].status = <<"Done">>
    /\ stored = <<stringifyTasks(tasks)>>

\* C13: in every state the component rests in, the assignee index holds no
\* empty value and no value twice, and its values are exactly the non-empty
\* assignees of the tasks of the whole collection.
C13_AssigneeIndexExact ==
    /\ \A i \in 1..Len(assigneeList) : ~Falsy(assigneeList[i])
    /\ \A i, j \in 1..Len(assigneeList) : i # j => assigneeList[i] # assigneeList[j]
    /\ {assigneeList[i] : i \in 1..Len(assigneeList)}
         = {tasks[i].assignee : i \in 1..Len(tasks)} \ {EmptyStr, Undefined}

\* C13 witness: two tasks carry the same assignee, the index holding it once,
\* after an assignee present at the first visit left the collection
C13_Witness ==
    /\ Len(tasks) = 2
    /\ tasks[1].assignee = <<"Rami">>
    /\ tasks[2].assignee = <<"Rami">>
    /\ assigneeList = << <<"Rami">> >>
    /\ <<"u2">> \notin IdsOf(tasks)

\* The stored value is a serialized task collection
WellFormed(raw) == raw # <<>> /\ raw[1].json = "array"

\* C14: a page load that finds no stored value, or one that is not a
\* well-formed serialized task collection (text that does not parse, or that
\* parses to something that is not a list of tasks), mounts the component on
\* the seed dataset of two sample tasks.
C14_LoadFallsBackToSeed ==
    [][ (Reload /\ ~WellFormed(stored))
        => /\ mounted'
           /\ tasks' = sampleTasks(clock) ]_vars

\* The lists the memo can hold in this state
Views == visibleTasks(tasks, query, filterStatus, filterPriority, sortBy)

\* A step in which a control of the list takes its new value
ViewStep == viewChange(query', filterStatus', filterPriority', sortBy')

\* The place of task t in the collection
Pos(t) == CHOOSE k \in 1..Len(tasks) : tasks[k] = t

\* C15: computing the derived list for a search text, a status filter, a
\* priority filter and a sort key leaves the collection as it is (the same
\* records with the same values in the same order) and what is stored too,
\* for every sort key.
C15_ViewLeavesCollection ==
    [][ ViewStep => (tasks' = tasks /\ stored' = stored) ]_vars

\* C15 witness: the list is sorted by priority and shows every task, in
\* another order than the collection holds them
C15_Witness ==
    /\ mounted
    /\ sortBy = <<"priority">>
    /\ stored = <<stringifyTasks(tasks)>>
    /\ \E r \in Views : Len(r) = Len(tasks) /\ r # tasks

\* Two tasks have the same key under the sort key in force
SameKey(a, b) ==
    CASE sortBy = <<"dueDate">> -> Or(a.dueDate, EmptyStr) = Or(b.dueDate, EmptyStr)
      [] sortBy = <<"priority">> -> order(a.priority) = order(b.priority)
      [] sortBy = <<"updatedAt">> -> Or(a.updatedAt, EmptyStr) = Or(b.updatedAt, EmptyStr)

\* Tasks whose keys are equal stand in every list the memo can hold in the
\* order in which the collection holds them
KeepsTies ==
    \A r \in Views :
        \A i, j \in 1..Len(r) :
            (i < j /\ SameKey(r[i], r[j])) => Pos(r[i]) < Pos(r[j])

\* C16: under each of the three sort keys, tasks whose keys are equal appear in
\* the derived list in the order in which the collection holds them, whenever
\* a control change has the list computed.  (That one engine orders the
\* same collection the same way twice is not in doubt and is not stated here.)
C16_SortStable ==
    [][ (ViewStep /\ mounted') => KeepsTies' ]_vars

\* Every list the memo can hold is in ascending order of the due date strings,
\* the tasks without a due date after all the others
DueDateOrder ==
    \A r \in Views :
        \A i, j \in 1..Len(r) :
            i < j =>
                /\ (~Falsy(r[i].dueDate) /\ ~Falsy(r[j].dueDate))
                      => ~greater(r[i].dueDate, r[j].dueDate)
                /\ ~(Falsy(r[i].dueDate) /\ ~Falsy(r[j].dueDate))

\* C17: sorted by dueDate, the derived list is in ascending order of the due
\* date strings and every task without a due date comes after every task that
\* has one, whenever a control change has the list computed.
C17_DueDateAscendingUndatedLast ==
    [][ (ViewStep /\ mounted' /\ sortBy' = <<"dueDate">>) => DueDateOrder' ]_vars

\* The search text occurs, whatever the case of the letters, in the title, the
\* description or the assignee of t, a field that is absent holding no text
Wanted(t) ==
    \E f \in {"title", "description", "assignee"} :
        includes(toLowerCase(Or(t[f], EmptyStr)), toLowerCase(query))

\* C18: for every collection and every search text the list is computed (the
\* render does not throw), and with both filters on All it holds exactly the
\* tasks of the collection in which the search text occurs, tasks with absent
\* fields included, and every task when the search text is empty (or blank).
C18_SearchKeepsExactlyMatches ==
    /\ mounted
    /\ (filterStatus = All /\ filterPriority = All) =>
          \A r \in Views :
              {r[i] : i \in 1..Len(r)}
                = {tasks[i] : i \in {k \in 1..Len(tasks) :
                                        trim(query) = EmptyStr \/ Wanted(tasks[k])}}

\* C19: an import is all or nothing.  When the read of a file completes and
\* decoding a field of one of its data rows fails, no record of the file is
\* merged: the collection and what is stored stay as they are.  Otherwise the
\* one step puts exactly one record for each non-empty data row, in file
\* order, ahead of the collection as it was.
C19_ImportAllOrNothing ==
    [][ \A text \in reading :
          onload(text) =>
            LET lines == linesOf(text)
                n == Len(lines) - 1
            IN  IF n >= 1 /\ rowsParse(lines)
                THEN /\ Len(tasks') = n + Len(tasks)
                     /\ \A r \in 1..n : tasks'[r] = rowObject(headerOf(lines), lines[r + 1])
                     /\ \A k \in 1..Len(tasks) : tasks'[n + k] = tasks[k]
                ELSE /\ tasks' = tasks
                     /\ stored' = stored ]_vars

\* C19 witness: the read of a file in which one row decodes and another does
\* not has just ended in the exception of line 150, the collection holding
\* a record and storage holding that collection
C19_Witness ==
    /\ thrown
    /\ tasks # <<>>
    /\ stored = <<stringifyTasks(tasks)>>

====
